---- MODULE Spec2Model ----
(***************************************************************************)
(* HDF5 object persistence of src/local_utils.py (save_hdf5 / read_hdf5):  *)
(* the metadata builder, the writer and reader registries, and the two     *)
(* public calls as step machines over one container file.                  *)
(*                                                                         *)
(* Python values are records [cls, txt, items]: cls is the class name      *)
(* (value.__class__.__name__), txt the text of a scalar (str(value)) or    *)
(* the dtype of an array, items the children.  Container nodes carry a     *)
(* fourth field attrs.  A raised exception is the value Raise(kind).       *)
(***************************************************************************)
EXTENDS Integers, Sequences, FiniteSets, TLC

VARIABLES file, pc, arg, idx, meta, data, ret, before, saved, handle, log, given

\* the market-data functions: the function called, its position, the session,
\* the calls of stop_bloomberg_session, the requests sent, the events consumed
\* for the current request, data_records, the loop variable, its range, the
\* outcome, the events consumed so far that were no final response
VARIABLES fn, bpc, session, stops, sent, events, data_records, date, period, bret, waits

\* getBbgFieldData: its position, the inputs, the batch plan, the loop
\* variables, the temporary files (tempSave[b] read as what the file of that
\* name holds), the tables read back, the merged data, the fields with
\* overrides and the outcome
VARIABLES gpc, nAssets, nDates, fieldNames, isDelay, nBatches, fieldsPerBatch, batch, fi, tempSave, batchFieldsList, allBatches, overrideDict, gret

hvars == <<file, pc, arg, idx, meta, data, ret, before, saved, handle, log, given>>

bvars == <<fn, bpc, session, stops, sent, events, data_records, date, period, bret, waits>>

gvars == <<gpc, nAssets, nDates, fieldNames, isDelay, nBatches, fieldsPerBatch, batch, fi, tempSave, batchFieldsList, allBatches, overrideDict, gret>>

vars == <<hvars, bvars, gvars>>

\* ------------------------------------------------------------------------
\* Value constructors
\* ------------------------------------------------------------------------

Py(cls, txt, items) == [cls |-> cls, txt |-> txt, items |-> items]

H5(cls, txt, items, attrs) == [cls |-> cls, txt |-> txt, items |-> items, attrs |-> attrs]

KV(k, v) == [k |-> k, v |-> v]

Raise(kind) == Py("raise", kind, <<>>)

IsRaise(x) == x.cls = "raise"

None == Py("NoneType", "None", <<>>)

PyFloat(t) == Py("float", t, <<>>)

PyInt(t) == Py("int", t, <<>>)

PyStr(t) == Py("str", t, <<>>)

PyList(items) == Py("list", "", items)

PyDict(items) == Py("dict", "", items)

OrderedDict(items) == Py("OrderedDict", "", items)

ndarray(dtype, items) == Py("ndarray", dtype, items)

Series(dtype, items) == Py("Series", dtype, items)

DataFrame(columns) == Py("DataFrame", "", columns)

\* float('nan'): the missing cell of a pandas column
NaN == PyFloat("nan")

\* ------------------------------------------------------------------------
\* Sequence helpers
\* ------------------------------------------------------------------------

Keys(items) == {items[i].k : i \in DOMAIN items}

\* mapping[key] on an item list; the caller checks key \in Keys(items)
Lookup(items, key) == items[CHOOSE i \in DOMAIN items : items[i].k = key].v

\* names in the order h5py iterates a group (by name, ASCII order)
KeyOrder == <<"DataFrame", "_metadata", "a", "b", "c", "x", "y">>

KeyRank(k) == CHOOSE i \in DOMAIN KeyOrder : KeyOrder[i] = k

RECURSIVE SortItems(_)
SortItems(items) ==
    IF items = <<>> THEN <<>>
    ELSE LET m == CHOOSE i \in DOMAIN items :
                    \A j \in DOMAIN items : KeyRank(items[i].k) <= KeyRank(items[j].k)
             rest == [j \in 1..(Len(items) - 1) |-> IF j < m THEN items[j] ELSE items[j + 1]]
         IN <<items[m]>> \o SortItems(rest)

\* group[key] = node: replaces the entry of that name or adds it, names sorted
SetItem(items, key, node) ==
    SortItems(SelectSeq(items, LAMBDA e : e.k # key) \o <<KV(key, node)>>)

\* ------------------------------------------------------------------------
\* numpy / pandas conversions used by the writers and readers
\* ------------------------------------------------------------------------

IsScalar(v) == v.cls \in {"float", "int", "str", "NoneType"}

\* pandas isna() of one cell
IsMissing(c) == c = NaN \/ c = None

\* one element of np.asarray(..., dtype='S'): the bytes of str(element)
ToBytes(c) == Py("bytes", c.txt, <<>>)

\* bytes.decode() / numpy's cast of 'S' to str
Decode(c) == PyStr(c.txt)

\* Series.astype(str): str(cell) of every cell, a missing cell included
AsTypeStr(cells) == [i \in DOMAIN cells |-> PyStr(cells[i].txt)]

\* Series.fillna(value): only the cells that are still missing are replaced
FillNa(cells, value) == [i \in DOMAIN cells |-> IF IsMissing(cells[i]) THEN PyStr(value) ELSE cells[i]]

\* Series.to_numpy()
ToNumpy(col) == ndarray(col.txt, col.items)

\* np.array(rows, dtype='S') of a list of lists: rows of unequal length have no array
IsRagged(rows) == \E i, j \in DOMAIN rows : Len(rows[i]) # Len(rows[j])

\* ------------------------------------------------------------------------
\* Helper functions (src/local_utils.py, "Helper Functions")
\* ------------------------------------------------------------------------

\* the classes that are dict or derive from it
DictClasses == {"dict", "OrderedDict", "defaultdict"}

\* isinstance(value, dict) and not isinstance(value, OrderedDict)
IsPlainDict(v) == v.cls \in DictClasses /\ v.cls # "OrderedDict"

_OrderedDict_to_array(od) ==
    LET rows == [i \in DOMAIN od.items |-> <<PyStr(od.items[i].k)>> \o od.items[i].v.items]
    IN IF IsRagged(rows) \/ \E i \in DOMAIN rows : \E j \in DOMAIN rows[i] : ~IsScalar(rows[i][j])
       THEN Raise("ValueError")
       ELSE ndarray("S", [i \in DOMAIN rows |-> ndarray("S", [j \in DOMAIN rows[i] |-> ToBytes(rows[i][j])])])

\* the column entry that records the dtype of the column: (col, value[col].dtype.name)
ColumnMetadata_dtype(df) ==
    [i \in DOMAIN df.items |->
        Py("tuple", "", <<PyStr(df.items[i].k), PyStr(df.items[i].v.txt)>>)]

\* the column entry of a DataFrame: (col, value[col].to_numpy().__class__.__name__)
ColumnMetadata(df) ==
    [i \in DOMAIN df.items |->
        Py("tuple", "", <<PyStr(df.items[i].k), PyStr(ToNumpy(df.items[i].v).cls)>>)]

\* _make_metadata without the recursion: a nested dict is recorded by its class name
_make_metadata_flat(d) ==
    PyDict([i \in DOMAIN d.items |->
        IF d.items[i].v.cls = "DataFrame"
        THEN KV(d.items[i].k, PyDict(<<KV("DataFrame", PyList(ColumnMetadata(d.items[i].v)))>>))
        ELSE KV(d.items[i].k, PyStr(d.items[i].v.cls))])

RECURSIVE _make_metadata(_)
_make_metadata(d) ==
    PyDict([i \in DOMAIN d.items |->
        LET key == d.items[i].k
            value == d.items[i].v
        IN IF IsPlainDict(value) THEN KV(key, _make_metadata(value))
           ELSE IF value.cls = "DataFrame"
                THEN KV(key, PyDict(<<KV("DataFrame", PyList(ColumnMetadata(value)))>>))
                ELSE KV(key, PyStr(value.cls))])

\* ------------------------------------------------------------------------
\* json.dumps / json.loads: the text is kept as the JSON value it spells
\* ------------------------------------------------------------------------

RECURSIVE ToJson(_)
ToJson(v) ==
    IF v.cls = "dict" THEN Py("jobject", "", [i \in DOMAIN v.items |-> KV(v.items[i].k, ToJson(v.items[i].v))])
    ELSE IF v.cls \in {"list", "tuple"} THEN Py("jarray", "", [i \in DOMAIN v.items |-> ToJson(v.items[i])])
    ELSE Py("jstring", v.txt, <<>>)

RECURSIVE FromJson(_)
FromJson(j) ==
    IF j.cls = "jobject" THEN PyDict([i \in DOMAIN j.items |-> KV(j.items[i].k, FromJson(j.items[i].v))])
    ELSE IF j.cls = "jarray" THEN PyList([i \in DOMAIN j.items |-> FromJson(j.items[i])])
    ELSE PyStr(j.txt)

json_dumps(v) == Py("text", "json", <<ToJson(v)>>)

\* json.loads that takes an unparsable text for an empty mapping
json_loads_lenient(t) == IF t.txt = "json" THEN FromJson(t.items[1]) ELSE PyDict(<<>>)

json_loads(t) == IF t.txt = "json" THEN FromJson(t.items[1]) ELSE Raise("JSONDecodeError")

\* ------------------------------------------------------------------------
\* The container: groups, datasets, attributes (h5py)
\* ------------------------------------------------------------------------

Group(items, attrs) == H5("Group", "", items, attrs)

Dataset(dtype, items) == H5("Dataset", dtype, items, <<>>)

\* h5py.File(filename, 'w'): the file is truncated when it is opened
EmptyFile == Group(<<>>, <<>>)

\* result of a writer: the group as the writer left it, and the exception or ""
W(g, err) == [g |-> g, err |-> err]

\* group.create_dataset(key, data=array, compression=...)
create_dataset(g, key, arr) ==
    IF key \in Keys(g.items) THEN W(g, "ValueError")
    ELSE IF arr.txt = "U" THEN W(g, "TypeError")
    ELSE IF arr.txt = "object"
         THEN IF \A i \in DOMAIN arr.items : arr.items[i].cls = "str"
              THEN W([g EXCEPT !.items = SetItem(@, key,
                        Dataset("vlen_str", [i \in DOMAIN arr.items |-> ToBytes(arr.items[i])]))], "")
              ELSE W(g, "TypeError")
    ELSE W([g EXCEPT !.items = SetItem(@, key, Dataset(arr.txt, arr.items))], "")

\* group.create_group(key)
create_group(g, key) ==
    IF key \in Keys(g.items) THEN W(g, "ValueError")
    ELSE W([g EXCEPT !.items = SetItem(@, key, Group(<<>>, <<>>))], "")

\* ------------------------------------------------------------------------
\* Backend writer functions
\* ------------------------------------------------------------------------

\* the metadata text stored as a member of the group, where the data entries are
_write_attrs_member(g, key, value) ==
    W([g EXCEPT !.items = SetItem(@, key, Dataset("S", <<json_dumps(value)>>))], "")

_write_attrs(g, key, value) ==
    W([g EXCEPT !.attrs = SetItem(@, key, json_dumps(value))], "")

_write_ndarray(g, key, value) == create_dataset(g, key, value)

_write_OrderedDict(g, key, value) ==
    LET arr == _OrderedDict_to_array(value)
    IN IF IsRaise(arr) THEN W(g, arr.txt) ELSE create_dataset(g, key, arr)

_write_list(g, key, value) ==
    IF \E i \in DOMAIN value.items : ~IsScalar(value.items[i]) THEN W(g, "ValueError")
    ELSE create_dataset(g, key, ndarray("S", [i \in DOMAIN value.items |-> ToBytes(value.items[i])]))

_write_scalar(g, key, value) == create_dataset(g, key, ndarray("S", <<ToBytes(value)>>))

\* the column as _write_DataFrame hands it to the ndarray writer
ColumnData(col) ==
    IF col.txt = "object"
    THEN ToNumpy(Series("object", FillNa(AsTypeStr(col.items), "NaN")))
    ELSE ToNumpy(col)

\* the writers table of _write_to_hdf5, by class name; _write_scalar is the default
Writers == {"OrderedDict", "ndarray", "attrs", "list", "dict", "DataFrame", "InputParameters"}

WriterOf(cls_name) == IF cls_name \in Writers THEN cls_name ELSE "scalar"

RECURSIVE _write_to_hdf5(_, _, _), _write_dict(_, _, _), _write_DataFrame(_, _, _), WriteItems(_, _, _), WriteColumns(_, _, _)

\* the loop "for subkey, subvalue in value.items()", from item i on, until a writer raises
WriteItems(g, items, i) ==
    IF i > Len(items) THEN W(g, "")
    ELSE LET r == _write_to_hdf5(g, items[i].k, items[i].v)
         IN IF r.err # "" THEN r ELSE WriteItems(r.g, items, i + 1)

\* the loop "for col in value.columns", from column i on
WriteColumns(g, cols, i) ==
    IF i > Len(cols) THEN W(g, "")
    ELSE LET r == _write_to_hdf5(g, cols[i].k, ColumnData(cols[i].v))
         IN IF r.err # "" THEN r ELSE WriteColumns(r.g, cols, i + 1)

_write_dict(g, key, value) ==
    LET c == create_group(g, key)
    IN IF c.err # "" THEN c
       ELSE LET r == WriteItems(Lookup(c.g.items, key), value.items, 1)
            IN W([c.g EXCEPT !.items = SetItem(@, key, r.g)], r.err)

_write_DataFrame(g, key, value) ==
    LET c == create_group(g, key)
    IN IF c.err # "" THEN c
       ELSE LET r == WriteColumns(Lookup(c.g.items, key), value.items, 1)
            IN W([c.g EXCEPT !.items = SetItem(@, key, r.g)], r.err)

\* value.to_dict() of an InputParameters object is a plain dict of its entries
_write_InputParameters(g, key, value) == _write_dict(g, key, PyDict(value.items))

_write_to_hdf5(g, key, value) ==
    LET writer == WriterOf(value.cls)
    IN CASE writer = "OrderedDict" -> _write_OrderedDict(g, key, value)
         [] writer = "ndarray" -> _write_ndarray(g, key, value)
         [] writer = "attrs" -> _write_attrs(g, key, value)
         [] writer = "list" -> _write_list(g, key, value)
         [] writer = "dict" -> _write_dict(g, key, value)
         [] writer = "DataFrame" -> _write_DataFrame(g, key, value)
         [] writer = "InputParameters" -> _write_InputParameters(g, key, value)
         [] OTHER -> _write_scalar(g, key, value)

\* ------------------------------------------------------------------------
\* Backend reader functions
\* ------------------------------------------------------------------------

\* dataset[()] as numpy hands it over: a variable-length string dataset comes
\* back as an object array of bytes
ReadArray(ds) == IF ds.txt = "vlen_str" THEN ndarray("object", ds.items) ELSE ndarray(ds.txt, ds.items)

_read_attrs(value, metadata) == PyDict(value.attrs)

\* the array cast to text, as _read_OrderedDict reads its rows
_read_ndarray_str(value, metadata) ==
    IF value.cls # "Dataset" THEN Raise("TypeError")
    ELSE ndarray("U", [i \in DOMAIN value.items |-> PyStr(value.items[i].txt)])

_read_ndarray(value, metadata) ==
    IF value.cls # "Dataset" THEN Raise("TypeError") ELSE ReadArray(value)

\* rows of np.asarray(value[()], dtype=str), each unpacked as k, *v
_read_OrderedDict(value, metadata) ==
    IF value.cls # "Dataset" THEN Raise("TypeError")
    ELSE IF \E i \in DOMAIN value.items : value.items[i].cls # "ndarray" \/ value.items[i].items = <<>>
         THEN Raise("ValueError")
    ELSE OrderedDict([i \in DOMAIN value.items |->
            LET row == value.items[i].items
            IN KV(Decode(row[1]).txt, PyList([j \in 1..(Len(row) - 1) |-> Decode(row[j + 1])]))])

\* [s.decode() for s in value[()]]
_read_list(value, metadata) ==
    IF value.cls # "Dataset" THEN Raise("TypeError")
    ELSE IF \E i \in DOMAIN value.items : value.items[i].cls # "bytes" THEN Raise("AttributeError")
    ELSE PyList([i \in DOMAIN value.items |-> Decode(value.items[i])])

\* the name InputParameters is bound nowhere in the module
_read_InputParameters(value, metadata) == Raise("NameError")

\* the readers table of _get_reader; _read_attrs is the default
Readers == {"OrderedDict", "ndarray", "attrs", "list", "dict", "DataFrame", "InputParameters"}

\* _get_reader without the default: an unregistered tag has no reader
_get_reader_strict(value) ==
    IF IsPlainDict(value)
    THEN IF "DataFrame" \in Keys(value.items) THEN "DataFrame" ELSE "dict"
    ELSE IF value.cls # "str" THEN "TypeError"
    ELSE IF value.txt \in Readers THEN value.txt ELSE "KeyError"

_get_reader(value) ==
    IF IsPlainDict(value)
    THEN IF "DataFrame" \in Keys(value.items) THEN "DataFrame" ELSE "dict"
    ELSE IF value.cls # "str" THEN "TypeError"
    ELSE IF value.txt \in Readers THEN value.txt ELSE "attrs"

\* data[key] = value of a Python dict: a new key goes last, an old key keeps its place
DictSet(items, key, value) ==
    IF key \in Keys(items)
    THEN [i \in DOMAIN items |-> IF items[i].k = key THEN KV(key, value) ELSE items[i]]
    ELSE Append(items, KV(key, value))

\* the DataFrame built with its columns in the order h5py lists the group
pd_DataFrame_sorted(cols) ==
    IF \E i, j \in DOMAIN cols : Len(cols[i].v.items) # Len(cols[j].v.items)
    THEN Raise("ValueError")
    ELSE DataFrame(SortItems([i \in DOMAIN cols |->
            KV(cols[i].k, Series(IF cols[i].v.txt \in {"U", "S"} THEN "object" ELSE cols[i].v.txt,
                                 cols[i].v.items))]))

\* pd.DataFrame(data) of a dict of column arrays
pd_DataFrame(cols) ==
    IF \E i \in DOMAIN cols : \E j \in DOMAIN cols[i].v.items : cols[i].v.items[j].cls = "ndarray"
    THEN Raise("ValueError")
    ELSE IF \E i, j \in DOMAIN cols : Len(cols[i].v.items) # Len(cols[j].v.items)
    THEN Raise("ValueError")
    ELSE DataFrame([i \in DOMAIN cols |->
            KV(cols[i].k, Series(IF cols[i].v.txt \in {"U", "S"} THEN "object" ELSE cols[i].v.txt,
                                 cols[i].v.items))])

\* col_data.astype(str) of an object array
ArrayAsTypeStr(arr) == ndarray("U", [i \in DOMAIN arr.items |-> Decode(arr.items[i])])

RECURSIVE Apply(_, _, _), _read_dict(_, _), _read_DataFrame(_, _), ReadItems(_, _, _, _), ReadColumns(_, _, _, _)

\* the loop "for subkey in group" of _read_dict, from entry i on, data being the dict so far
ReadItems(group, metadata, i, acc) ==
    IF i > Len(group.items) THEN PyDict(acc)
    ELSE LET subkey == group.items[i].k
         IN IF subkey \notin Keys(metadata.items) THEN Raise("KeyError")
            ELSE LET m == Lookup(metadata.items, subkey)
                     reader == _get_reader(m)
                     v == Apply(reader, group.items[i].v, m)
                 IN IF IsRaise(v) THEN v ELSE ReadItems(group, metadata, i + 1, DictSet(acc, subkey, v))

\* "for subkey in group" over a dataset yields its elements along the first
\* axis, bytes or rows, none of which is a key of the metadata
_read_dict(group, metadata) ==
    IF group.cls = "Group" THEN ReadItems(group, metadata, 1, <<>>)
    ELSE IF group.items = <<>> THEN PyDict(<<>>)
    ELSE IF group.items[1].cls = "ndarray" THEN Raise("TypeError")
    ELSE Raise("KeyError")

\* the loop over the columns when a column that cannot be read is left out
ReadColumns_skip(group, column_metadata, i, acc) ==
    IF i > Len(column_metadata.items) THEN pd_DataFrame(acc)
    ELSE LET pair == column_metadata.items[i]
         IN IF ~(pair.cls \in {"list", "tuple"} /\ Len(pair.items) = 2) THEN Raise("ValueError")
            ELSE IF group.cls # "Group" THEN Raise("ValueError")
            ELSE IF pair.items[1].cls # "str" \/ pair.items[1].txt \notin Keys(group.items)
                 THEN ReadColumns(group, column_metadata, i + 1, acc)
            ELSE LET col_data == Apply(_get_reader(pair.items[2]), Lookup(group.items, pair.items[1].txt), pair.items[2])
                 IN IF IsRaise(col_data) \/ col_data.cls # "ndarray"
                    THEN ReadColumns(group, column_metadata, i + 1, acc)
                    ELSE ReadColumns(group, column_metadata, i + 1,
                            DictSet(acc, pair.items[1].txt,
                                IF col_data.txt = "object" THEN ArrayAsTypeStr(col_data) ELSE col_data))

\* the loop "for col_name, col_dtype in column_metadata", from pair i on
ReadColumns(group, column_metadata, i, acc) ==
    IF i > Len(column_metadata.items) THEN pd_DataFrame(acc)
    ELSE LET pair == column_metadata.items[i]
         IN IF ~(pair.cls \in {"list", "tuple"} /\ Len(pair.items) = 2) THEN Raise("ValueError")
            ELSE LET col_name == pair.items[1]
                     col_dtype == pair.items[2]
                     reader == _get_reader(col_dtype)
                 IN IF group.cls # "Group" THEN Raise("ValueError")
                    ELSE IF col_name.cls # "str" \/ col_name.txt \notin Keys(group.items) THEN Raise("KeyError")
                    ELSE LET col_data == Apply(reader, Lookup(group.items, col_name.txt), col_dtype)
                         IN IF IsRaise(col_data) THEN col_data
                            ELSE IF col_data.cls # "ndarray" THEN Raise("AttributeError")
                            ELSE ReadColumns(group, column_metadata, i + 1,
                                    DictSet(acc, col_name.txt,
                                        IF col_data.txt = "object" THEN ArrayAsTypeStr(col_data) ELSE col_data))

\* metadata["DataFrame"] is the column list of a table; under a Grouping that has
\* an entry named DataFrame it is a tag string or a mapping, whose elements
\* (characters, keys) do not unpack into (col_name, col_dtype)
_read_DataFrame(group, metadata) ==
    LET column_metadata == Lookup(metadata.items, "DataFrame")
    IN IF column_metadata.cls = "list" THEN ReadColumns(group, column_metadata, 1, <<>>)
       ELSE IF column_metadata.cls = "dict" /\ column_metadata.items = <<>> THEN pd_DataFrame(<<>>)
       ELSE Raise("ValueError")

Apply(reader, value, metadata) ==
    CASE reader = "OrderedDict" -> _read_OrderedDict(value, metadata)
      [] reader = "ndarray" -> _read_ndarray(value, metadata)
      [] reader = "attrs" -> _read_attrs(value, metadata)
      [] reader = "list" -> _read_list(value, metadata)
      [] reader = "dict" -> _read_dict(value, metadata)
      [] reader = "DataFrame" -> _read_DataFrame(value, metadata)
      [] reader = "InputParameters" -> _read_InputParameters(value, metadata)
      [] OTHER -> Raise(reader)

\* ------------------------------------------------------------------------
\* Values handed to save_hdf5 and containers found on disk
\* ------------------------------------------------------------------------

\* deepest Grouping below the root Grouping
MaxDepth == 1

Scalar314 == PyFloat("3.14")

Array2x2 ==
    ndarray("int64", <<ndarray("int64", <<Py("int64", "1", <<>>), Py("int64", "2", <<>>)>>),
                       ndarray("int64", <<Py("int64", "3", <<>>), Py("int64", "4", <<>>)>>)>>)

\* a one-dimensional Array of floats
Array1 == ndarray("float64", <<Py("float64", "1.5", <<>>), Py("float64", "2.5", <<>>)>>)

\* a Sequence of one text and one number
SeqMixed == PyList(<<PyStr("foo"), PyInt("1")>>)

\* an OrderedMapping inserted in the order b, a, c
OrdBAC == OrderedDict(<<KV("b", PyList(<<PyStr("foo")>>)), KV("a", PyList(<<PyInt("1")>>)),
                        KV("c", PyList(<<PyStr("bar")>>))>>)

\* an OrderedMapping whose value lists differ in length
OrdRagged == OrderedDict(<<KV("b", PyList(<<PyStr("foo")>>)), KV("a", PyList(<<>>))>>)

ColX == Series("int64", <<Py("int64", "1", <<>>), Py("int64", "2", <<>>)>>)

\* a Table with numeric column x and text column y whose last cell is given
TableXY(cell) == DataFrame(<<KV("x", ColX), KV("y", Series("object", <<PyStr("foo"), cell>>))>>)

\* the same two columns in the order y, x
TableYX == DataFrame(<<KV("y", Series("object", <<PyStr("foo"), PyStr("bar")>>)), KV("x", ColX)>>)

\* a Grouping of a class derived from dict: collections.defaultdict
DefaultDict == Py("defaultdict", "defaultdict", <<KV("a", Array1)>>)

\* a nested Grouping that has an entry named DataFrame
GroupDF == PyDict(<<KV("DataFrame", Scalar314)>>)

Leaves == {Scalar314, Array1, Array2x2, SeqMixed, OrdBAC, OrdRagged, TableXY(NaN), TableXY(PyStr("NaN")), TableYX}

NestLeaves == {Scalar314, TableXY(NaN)}

RECURSIVE Nested(_)
Nested(d) ==
    IF d = 0 THEN NestLeaves
    ELSE Nested(d - 1) \cup {PyDict(<<>>)} \cup {PyDict(<<KV("a", v)>>) : v \in Nested(d - 1)}

Nodes == Leaves \cup (Nested(MaxDepth) \ NestLeaves) \cup {GroupDF, DefaultDict}

RootKeys == {"a", "b"}

\* the value of the spec's scenario: a Scalar, a 2x2 Array, a Table with a missing text cell
Scenario == PyDict(<<KV("a", Scalar314), KV("b", Array2x2), KV("c", TableXY(NaN))>>)

\* root Groupings with a data key spelled like the metadata attribute
ReservedRoots ==
    {PyDict(<<KV("_metadata", v)>>) : v \in Leaves}
    \cup {PyDict(<<KV("a", Array2x2), KV("_metadata", v)>>) : v \in {SeqMixed, TableYX, PyDict(<<KV("a", Scalar314)>>)}}

\* the values of the second entry of a root Grouping of two
SecondNodes == {Scalar314, Array2x2, OrdRagged, TableXY(NaN)}

\* root Groupings: dicts of distinct root keys, in every insertion order
Roots ==
    {PyDict(<<>>)}
    \cup {PyDict(<<KV(k, v)>>) : k \in RootKeys, v \in Nodes}
    \cup {PyDict(<<KV(k[1], v[1]), KV(k[2], v[2])>>) :
            k \in {q \in RootKeys \X RootKeys : q[1] # q[2]}, v \in Nodes \X SecondNodes}
    \cup {Scenario}
    \cup ReservedRoots

BytesFoo == Dataset("S", <<Py("bytes", "foo", <<>>)>>)

MetaText(items) == json_dumps(PyDict(items))

\* a Table group that holds the column x and no column y
GroupX == Group(<<KV("x", Dataset("int64", ColX.items))>>, <<>>)

\* the column list (x, ndarray), (y, tag) as json.loads returns it
ColumnsXY(tag) == PyList(<<PyList(<<PyStr("x"), PyStr("ndarray")>>), PyList(<<PyStr("y"), PyStr(tag)>>)>>)

\* containers whose Table has a column that cannot be reconstructed, behind a
\* readable entry: the column y is recorded and absent at the root, the column
\* y has a tag whose reader raises inside a nested Grouping
BadTables ==
    {Group(<<KV("a", BytesFoo), KV("b", GroupX)>>,
           <<KV("_metadata", MetaText(<<KV("a", PyStr("list")),
                                        KV("b", PyDict(<<KV("DataFrame", ColumnsXY("ndarray"))>>))>>))>>),
     Group(<<KV("a", BytesFoo),
             KV("b", Group(<<KV("a", BytesFoo), KV("c", Group(<<KV("x", Dataset("int64", ColX.items)), KV("y", BytesFoo)>>, <<>>))>>, <<>>))>>,
           <<KV("_metadata", MetaText(<<KV("a", PyStr("list")),
                 KV("b", PyDict(<<KV("a", PyStr("list")),
                                  KV("c", PyDict(<<KV("DataFrame", ColumnsXY("InputParameters"))>>))>>))>>))>>)}

\* containers not written by save_hdf5: unparsable metadata, a metadata key with
\* no entry, an entry with no metadata key, an unregistered tag on an entry that
\* carries an attribute
Foreign ==
    BadTables \cup
    {Group(<<KV("a", BytesFoo)>>, <<KV("_metadata", Py("text", "garbage", <<>>))>>),
     Group(<<KV("a", BytesFoo)>>, <<KV("_metadata", MetaText(<<KV("a", PyStr("list")), KV("b", PyStr("list"))>>))>>),
     Group(<<KV("a", BytesFoo), KV("b", BytesFoo)>>, <<KV("_metadata", MetaText(<<KV("a", PyStr("list"))>>))>>),
     Group(<<KV("a", [BytesFoo EXCEPT !.attrs = <<KV("unit", PyStr("m"))>>]), KV("b", BytesFoo)>>,
           <<KV("_metadata", MetaText(<<KV("a", PyStr("Quantity")), KV("b", PyStr("list"))>>))>>)}

\* ------------------------------------------------------------------------
\* save_hdf5 and read_hdf5, step by step
\* ------------------------------------------------------------------------

Ret(op, status, value) == [op |-> op, status |-> status, value |-> value]

\* one write on the root of the file: a data entry ("entry") or a root attribute ("attr")
Ev(kind, key) == [kind |-> kind, key |-> key]

\* leaving a with block without closing the file when an exception passes through
Close_noexc(h, exc) == IF exc THEN h ELSE "closed"

\* the end of "with h5py.File(...) as f": the handle is closed whether the
\* block ends normally or an exception passes through it
Close(h, exc) == "closed"

\* no market-data function has been called
BIdle ==
    /\ fn = "none" /\ bpc = "idle" /\ session = "none" /\ stops = 0
    /\ sent = <<>> /\ events = <<>> /\ data_records = <<>>
    /\ date = 0 /\ period = <<0, 0>> /\ bret = "none" /\ waits = 0

\* getBbgFieldData has not been called
GIdle ==
    /\ gpc = "idle" /\ nAssets = 0 /\ nDates = 0 /\ fieldNames = <<>>
    /\ isDelay = FALSE /\ nBatches = 0 /\ fieldsPerBatch = 0
    /\ batch = 0 /\ fi = 0 /\ tempSave = <<>> /\ batchFieldsList = <<>>
    /\ allBatches = {} /\ overrideDict = {} /\ gret = "none"

Init ==
    /\ BIdle /\ GIdle
    /\ file \in {EmptyFile} \cup Foreign
    /\ pc = "idle"
    /\ arg = None
    /\ idx = 0
    /\ meta = None
    /\ data = <<>>
    /\ ret = Ret("none", "none", None)
    /\ before = file
    /\ saved = None
    /\ handle = "closed"
    /\ log = <<>>
    /\ given = None

\* the caller's column if fillna(inplace=True) acted on the caller's own Series
CallerColumn_inplace(col) ==
    IF col.txt = "object" THEN Series("object", FillNa(col.items, "NaN")) ELSE col

\* the caller's column after _write_DataFrame wrote it: col_data.astype(str)
\* returns a new Series, and fillna(inplace=True) changes that new Series
CallerColumn(col) == col

\* the caller's value after _write_to_hdf5 was called on it
RECURSIVE InputAfter(_)
InputAfter(value) ==
    IF value.cls \in {"dict", "InputParameters"}
    THEN Py(value.cls, value.txt, [i \in DOMAIN value.items |-> KV(value.items[i].k, InputAfter(value.items[i].v))])
    ELSE IF value.cls = "DataFrame"
    THEN DataFrame([i \in DOMAIN value.items |-> KV(value.items[i].k, CallerColumn(value.items[i].v))])
    ELSE value

\* the file opened in append mode: what it holds is kept
SaveOpen_append ==
    /\ pc = "idle"
    /\ \E v \in Roots : arg' = v /\ given' = v
    /\ pc' = "save"
    /\ idx' = 0
    /\ before' = file
    /\ file' = file
    /\ saved' = None
    /\ ret' = Ret("save", "running", None)
    /\ handle' = "w"
    /\ log' = <<>>
    /\ UNCHANGED <<meta, data>>
    /\ UNCHANGED <<bvars, gvars>>

\* with h5py.File(str(filename), 'w') as hdf5_file
SaveOpen ==
    /\ pc = "idle"
    /\ \E v \in Roots : arg' = v /\ given' = v
    /\ pc' = "save"
    /\ idx' = 0
    /\ before' = file
    /\ file' = EmptyFile
    /\ saved' = None
    /\ ret' = Ret("save", "running", None)
    /\ handle' = "w"
    /\ log' = <<>>
    /\ UNCHANGED <<meta, data>>
    /\ UNCHANGED <<bvars, gvars>>

\* one turn of "for key, value in data.items(): _write_to_hdf5(...)"; an
\* exception leaves the with block, which closes the file as it is
SaveWrite ==
    /\ pc = "save"
    /\ idx < Len(arg.items)
    /\ LET r == _write_to_hdf5(file, arg.items[idx + 1].k, arg.items[idx + 1].v)
       IN /\ file' = r.g
          /\ IF r.err = ""
             THEN /\ idx' = idx + 1
                  /\ log' = Append(log, Ev("entry", arg.items[idx + 1].k))
                  /\ UNCHANGED <<pc, ret, before, handle>>
             ELSE /\ idx' = 0 /\ pc' = "idle" /\ ret' = Ret("save", "raise", Raise(r.err)) /\ before' = r.g
                  /\ handle' = Close(handle, TRUE)
                  /\ UNCHANGED log
    /\ arg' = [arg EXCEPT !.items[idx + 1].v = InputAfter(@)]
    /\ UNCHANGED <<meta, data, saved, given>>
    /\ UNCHANGED <<bvars, gvars>>

\* the metadata write taken before the loop over the entries is over
SaveMetadata_early ==
    /\ pc = "save"
    /\ file' = _write_attrs(file, "_metadata", _make_metadata(arg)).g
    /\ pc' = "idle"
    /\ idx' = 0
    /\ ret' = Ret("save", "ok", None)
    /\ saved' = arg
    /\ before' = file'
    /\ handle' = Close(handle, FALSE)
    /\ log' = Append(log, Ev("attr", "_metadata"))
    /\ UNCHANGED <<arg, meta, data, given>>
    /\ UNCHANGED <<bvars, gvars>>

\* metadata = _make_metadata(data); _write_attrs(hdf5_file, '_metadata', metadata, None)
SaveMetadata ==
    /\ pc = "save"
    /\ idx = Len(arg.items)
    /\ file' = _write_attrs(file, "_metadata", _make_metadata(arg)).g
    /\ pc' = "idle"
    /\ idx' = 0
    /\ ret' = Ret("save", "ok", None)
    /\ saved' = arg
    /\ before' = file'
    /\ handle' = Close(handle, FALSE)
    /\ log' = Append(log, Ev("attr", "_metadata"))
    /\ UNCHANGED <<arg, meta, data, given>>
    /\ UNCHANGED <<bvars, gvars>>

\* with h5py.File(str(filename), 'r') as f:
\*     metadata = json.loads(_read_attrs(f, None)['_metadata'])
ReadOpen ==
    /\ pc = "idle"
    /\ before' = file
    /\ idx' = 0
    /\ data' = <<>>
    /\ LET attrs == _read_attrs(file, None)
       IN IF "_metadata" \notin Keys(attrs.items)
          THEN /\ pc' = "idle" /\ meta' = None /\ ret' = Ret("read", "raise", Raise("KeyError"))
               /\ handle' = Close("r", TRUE)
          ELSE LET m == json_loads(Lookup(attrs.items, "_metadata"))
               IN IF IsRaise(m)
                  THEN /\ pc' = "idle" /\ meta' = None /\ ret' = Ret("read", "raise", m)
                       /\ handle' = Close("r", TRUE)
                  ELSE /\ pc' = "read" /\ meta' = m /\ ret' = Ret("read", "running", None)
                       /\ handle' = "r"
    /\ UNCHANGED <<file, arg, saved, log, given>>
    /\ UNCHANGED <<bvars, gvars>>

\* the turn of the loop when an entry that the metadata does not record is skipped
ReadEntry_skip ==
    /\ pc = "read"
    /\ idx < Len(file.items)
    /\ LET key == file.items[idx + 1].k
           v == IF ~IsPlainDict(meta) THEN Raise("TypeError")
                ELSE IF key \notin Keys(meta.items) THEN None
                ELSE Apply(_get_reader(Lookup(meta.items, key)), file.items[idx + 1].v,
                           Lookup(meta.items, key))
       IN IF IsRaise(v)
          THEN /\ pc' = "idle" /\ idx' = 0 /\ data' = <<>> /\ meta' = None /\ ret' = Ret("read", "raise", v)
               /\ handle' = Close(handle, TRUE)
          ELSE /\ idx' = idx + 1
               /\ data' = IF v = None THEN data ELSE DictSet(data, key, v)
               /\ UNCHANGED <<pc, meta, ret, handle>>
    /\ UNCHANGED <<file, arg, before, saved, log, given>>
    /\ UNCHANGED <<bvars, gvars>>

\* one turn of "for key in f": reader = _get_reader(metadata[key]);
\* data[key] = reader(f[key], metadata[key])
ReadEntry ==
    /\ pc = "read"
    /\ idx < Len(file.items)
    /\ LET key == file.items[idx + 1].k
           v == IF ~IsPlainDict(meta) THEN Raise("TypeError")
                ELSE IF key \notin Keys(meta.items) THEN Raise("KeyError")
                ELSE Apply(_get_reader(Lookup(meta.items, key)), file.items[idx + 1].v,
                           Lookup(meta.items, key))
       IN IF IsRaise(v)
          THEN /\ pc' = "idle" /\ idx' = 0 /\ data' = <<>> /\ meta' = None /\ ret' = Ret("read", "raise", v)
               /\ handle' = Close(handle, TRUE)
          ELSE idx' = idx + 1 /\ data' = DictSet(data, key, v) /\ UNCHANGED <<pc, meta, ret, handle>>
    /\ UNCHANGED <<file, arg, before, saved, log, given>>
    /\ UNCHANGED <<bvars, gvars>>

\* the return of a load that had opened the file for writing and leaves it without its metadata
ReadReturn_consume ==
    /\ pc = "read"
    /\ idx = Len(file.items)
    /\ pc' = "idle"
    /\ idx' = 0
    /\ ret' = Ret("read", "ok", PyDict(data))
    /\ data' = <<>>
    /\ meta' = None
    /\ handle' = Close(handle, FALSE)
    /\ file' = [file EXCEPT !.attrs = <<>>]
    /\ UNCHANGED <<arg, before, saved, log, given>>
    /\ UNCHANGED <<bvars, gvars>>

\* return data
ReadReturn ==
    /\ pc = "read"
    /\ idx = Len(file.items)
    /\ pc' = "idle"
    /\ idx' = 0
    /\ ret' = Ret("read", "ok", PyDict(data))
    /\ data' = <<>>
    /\ meta' = None
    /\ handle' = Close(handle, FALSE)
    /\ UNCHANGED <<file, arg, before, saved, log, given>>
    /\ UNCHANGED <<bvars, gvars>>

Next == SaveOpen \/ SaveWrite \/ SaveMetadata \/ ReadOpen \/ ReadEntry \/ ReadReturn

Spec == Init /\ [][Next]_vars

\* ------------------------------------------------------------------------
\* The market-data functions: get_reference_data, get_historical_data,
\* isFieldValid, get_index_data, each over its own Bloomberg session
\* ------------------------------------------------------------------------

\* most events other than a final RESPONSE that the session delivers in one call
MaxEvents == 3

\* last calendar day (and most fields of isFieldValid), days counted from 0
MaxDay == 2

\* times of day told apart within one calendar day; a datetime is the number
\* of such slots since midnight of day 0, a 'YYYY-MM-DD' string is a midnight
Slots == 2

\* the datetimes of the days 0..MaxDay
Datetimes == 0..(Slots * (MaxDay + 1) - 1)

\* date.strftime('%Y%m%d'): the calendar day of a datetime
Day(dt) == dt \div Slots

\* date += timedelta(days=1) in get_index_data; the next field in isFieldValid
Advance(f, d) == IF f = "get_index_data" THEN d + Slots ELSE d + 1

Functions == {"get_reference_data", "get_historical_data", "isFieldValid", "get_index_data"}

\* the functions that send one request per turn of an outer loop
Looping == {"isFieldValid", "get_index_data"}

\* the events of a session: status and timeout events carry no securityData,
\* partial and final responses carry the records of their messages
Event(type, recs) == [type |-> type, recs |-> recs]

Events ==
    {Event("SESSION_STATUS", <<>>), Event("TIMEOUT", <<>>), Event("PARTIAL_RESPONSE", <<"r1">>),
     Event("RESPONSE", <<>>), Event("RESPONSE", <<"r2", "r3">>)}

\* one entry of data_records: get_index_data puts the date of the running
\* request into the record, isFieldValid appends one record per field
Record(f, rec, d) ==
    IF f = "get_index_data" THEN <<rec, Day(d)>> ELSE <<rec>>

\* the records that the messages of the event ev add to data_records
EventRecords(f, ev, d) ==
    IF f = "isFieldValid" THEN <<>>
    ELSE [i \in DOMAIN ev.recs |-> Record(f, ev.recs[i], d)]

\* the end of the event loop taken at a partial response as well
IsFinal_partial(ev) == ev.type \in {"PARTIAL_RESPONSE", "RESPONSE"}

\* if event.eventType() == blpapi.Event.RESPONSE: break
IsFinal(ev) == ev.type = "RESPONSE"

\* while date <= end_date (get_index_data), for fieldName in fields (isFieldValid)
InRange(d, end_date) == d <= end_date

\* one call of a market-data function (a call shares nothing with an earlier
\* call: the session and data_records are locals), up to
\* session = start_bloomberg_session(): session.start() succeeds or it does
\* not, and then ConnectionError leaves the function
StartSession ==
    /\ bpc = "idle" /\ fn = "none"
    /\ \E f \in Functions, p \in Datetimes \X Datetimes :
          /\ fn' = f
          /\ period' = IF f = "get_index_data" THEN p
                       ELSE IF f = "isFieldValid" THEN <<1, Day(p[2])>> ELSE <<0, 0>>
          /\ date' = IF f = "get_index_data" THEN p[1]
                     ELSE IF f = "isFieldValid" THEN 1 ELSE 0
    /\ stops' = 0 /\ sent' = <<>> /\ events' = <<>> /\ data_records' = <<>> /\ waits' = 0
    /\ \E session_status \in BOOLEAN :
          IF session_status
          THEN session' = "started" /\ bpc' = "open" /\ bret' = "running"
          ELSE session' = "none" /\ bpc' = "idle" /\ bret' = "ConnectionError"
    /\ UNCHANGED <<hvars, gvars>>

\* session.openService(...); service = session.getService(...)
OpenService ==
    /\ bpc = "open"
    /\ bpc' = IF fn \in Looping /\ ~InRange(date, period[2]) THEN "stop" ELSE "request"
    /\ UNCHANGED <<fn, session, stops, sent, events, data_records, date, period, bret, waits>>
    /\ UNCHANGED <<hvars, gvars>>

\* request = service.createRequest(...); ...; session.sendRequest(request)
SendRequest ==
    /\ bpc = "request"
    /\ sent' = Append(sent, IF fn = "get_index_data" THEN Day(date) ELSE date)
    /\ events' = <<>>
    /\ bpc' = "events"
    /\ UNCHANGED <<fn, session, stops, data_records, date, period, bret, waits>>
    /\ UNCHANGED <<hvars, gvars>>

\* one turn of "while True: event = session.nextEvent(); for msg in event: ...;
\* if event.eventType() == blpapi.Event.RESPONSE: break", and what follows the
\* break: the stop of the session, or the next turn of the outer loop
NextEvent ==
    /\ bpc = "events"
    /\ \E ev \in Events :
          /\ waits < MaxEvents \/ ev.type = "RESPONSE"
          /\ waits' = IF ev.type = "RESPONSE" THEN waits ELSE waits + 1
          /\ events' = Append(events, ev)
          /\ IF IsFinal(ev)
             THEN /\ data_records' = data_records \o EventRecords(fn, ev, date)
                                        \o (IF fn = "isFieldValid" THEN <<Record(fn, "field", date)>> ELSE <<>>)
                  /\ date' = IF fn \in Looping THEN Advance(fn, date) ELSE date
                  /\ bpc' = IF fn \in Looping /\ InRange(Advance(fn, date), period[2]) THEN "request" ELSE "stop"
             ELSE /\ data_records' = data_records \o EventRecords(fn, ev, date)
                  /\ UNCHANGED <<date, bpc>>
    /\ UNCHANGED <<fn, session, stops, sent, period, bret>>
    /\ UNCHANGED <<hvars, gvars>>

\* a call on the session or on a message raises (service not opened, request
\* refused, element not found): no statement of the function handles it
BlpapiRaises ==
    /\ bpc \in {"open", "request", "events"}
    /\ bpc' = "idle"
    /\ bret' = "Exception"
    /\ UNCHANGED <<fn, session, stops, sent, events, data_records, date, period, waits>>
    /\ UNCHANGED <<hvars, gvars>>

\* stop_bloomberg_session(session); return pd.DataFrame.from_records(data_records)
StopSession ==
    /\ bpc = "stop"
    /\ stops' = stops + 1
    /\ session' = "stopped"
    /\ bpc' = "idle"
    /\ \E session_status \in BOOLEAN : bret' = IF session_status THEN "ok" ELSE "ConnectionError"
    /\ UNCHANGED <<fn, sent, events, data_records, date, period, waits>>
    /\ UNCHANGED <<hvars, gvars>>

\* no container call runs and the file is empty
HIdle ==
    /\ file = EmptyFile /\ pc = "idle" /\ arg = None /\ idx = 0 /\ meta = None /\ data = <<>>
    /\ ret = Ret("none", "none", None) /\ before = EmptyFile /\ saved = None
    /\ handle = "closed" /\ log = <<>> /\ given = None

InitBbg == HIdle /\ BIdle /\ GIdle

NextBbg == StartSession \/ OpenService \/ SendRequest \/ NextEvent \/ BlpapiRaises \/ StopSession

SpecBbg == InitBbg /\ [][NextBbg]_vars

\* ------------------------------------------------------------------------
\* getBbgFieldData: the batch plan, the download loop and the merge
\* ------------------------------------------------------------------------

\* most field names in one call
MaxFields == 17

\* maxHits = 0.9 * 500000
maxHits == 450000

\* max_size = 0.1e9
max_size == 100000000

\* np.ceil(nFields/25)
FieldsPerRequest == 25

\* int(min(np.ceil(nFields / nBatches), 8))
MaxFieldsPerBatch == 8

\* universes and periods: <<nAssets, nDates>>
Universes == {<<2, 1>>, <<1000000, 1>>, <<1000, 9000>>}

\* np.ceil(a / b) for a >= 0 and b > 0
CeilDiv(a, b) == (a + b - 1) \div b

Min(a, b) == IF a <= b THEN a ELSE b

Max(a, b) == IF a >= b THEN a ELSE b

\* np.ceil((nAssets * nFields) / maxHits)
HitsTerm(nA, nF) == CeilDiv(nA * nF, maxHits)

\* np.ceil(nFields/25)
FieldsTerm(nF) == CeilDiv(nF, FieldsPerRequest)

\* np.ceil(approx_size/max_size), approx_size = nFields * nDates * nAssets * 8
SizeTerm(nA, nD, nF) == CeilDiv(nF * nD * nA * 8, max_size)

\* nBatches = 2 * max([...]), the first value of nBatches
FirstBatches(nA, nD, nF) == 2 * Max(HitsTerm(nA, nF), Max(FieldsTerm(nF), SizeTerm(nA, nD, nF)))

\* if nBatches == np.ceil((nAssets * nFields) / maxHits): isDelay = True
Delay(nA, nD, nF) == FirstBatches(nA, nD, nF) = HitsTerm(nA, nF)

\* fieldsPerBatch, for nBatches > 0
FieldsPerBatch(nF, nB) == Min(CeilDiv(nF, nB), MaxFieldsPerBatch)

\* fieldNames[(b*fieldsPerBatch):min((fieldsPerBatch*b)+fieldsPerBatch, nFields)]
BatchFields(names, fpb, b) == SubSeq(names, b * fpb + 1, Min(fpb * b + fpb, Len(names)))

\* the table get_historical_data returns for the fields fs: the fields it has data of
Table(fs) == fs

\* {'d': data, 'batchFields': batchFields}
BatchFile(d, batchFields) == [d |-> d, batchFields |-> batchFields]

\* save_hdf5 on a file that holds old: the file is truncated and holds the value
Truncated(old, value) == value

\* the columns of pd.concat(tables)
RECURSIVE Concat(_)
Concat(tables) == IF tables = <<>> THEN {} ELSE Head(tables) \cup Concat(Tail(tables))

\* the call ends with the exception kind
GRaise(kind) ==
    /\ gret' = kind
    /\ gpc' = "idle"
    /\ UNCHANGED <<batch, fi, tempSave, batchFieldsList, allBatches>>

\* the entry of getBbgFieldData up to tempSave = [None] * nBatches; with no
\* field nBatches is 0.0, nFields / nBatches is nan and int(nan) raises
PlanBatches ==
    /\ gpc = "idle" /\ gret = "none"
    /\ \E u \in Universes, n \in 0..MaxFields, withOverrides \in BOOLEAN :
          /\ nAssets' = u[1]
          /\ nDates' = u[2]
          /\ fieldNames' = [i \in 1..n |-> i]
          /\ overrideDict' = IF withOverrides /\ n > 0 THEN {n} ELSE {}
          /\ isDelay' = Delay(u[1], u[2], n)
          /\ IF n = 0
             THEN /\ nBatches' = 0
                  /\ fieldsPerBatch' = 0
                  /\ GRaise("ValueError")
             ELSE LET fpb == FieldsPerBatch(n, FirstBatches(u[1], u[2], n))
                  IN /\ fieldsPerBatch' = fpb
                     /\ nBatches' = CeilDiv(n, fpb)
                     /\ tempSave' = [b \in 1..CeilDiv(n, fpb) |-> None]
                     /\ batch' = 0
                     /\ fi' = 1
                     /\ gpc' = "download"
                     /\ gret' = "running"
                     /\ UNCHANGED <<batchFieldsList, allBatches>>
    /\ UNCHANGED <<hvars, bvars>>

\* one pass of the inner loop: the download of one field, the save of the
\* batch file and the delay test
DownloadField ==
    /\ gpc = "download"
    /\ LET batchFields == BatchFields(fieldNames, fieldsPerBatch, batch)
           fieldName == batchFields[fi]
       IN IF fieldName \in overrideDict
          THEN GRaise("TypeError")
          ELSE \E sameDay \in BOOLEAN :
                  IF isDelay /\ sameDay
                  THEN /\ gret' = "TypeError"
                       /\ gpc' = "idle"
                       /\ tempSave' = [tempSave EXCEPT ![batch + 1] =
                                          Truncated(@, BatchFile(Table({fieldName}), batchFields))]
                       /\ UNCHANGED <<batch, fi, batchFieldsList, allBatches>>
                  ELSE /\ tempSave' = [tempSave EXCEPT ![batch + 1] =
                                          Truncated(@, BatchFile(Table({fieldName}), batchFields))]
                       /\ IF fi < Len(batchFields)
                          THEN /\ fi' = fi + 1
                               /\ UNCHANGED <<batch, gpc>>
                          ELSE /\ fi' = 1
                               /\ batch' = IF batch + 1 < nBatches THEN batch + 1 ELSE 0
                               /\ gpc' = IF batch + 1 < nBatches THEN "download" ELSE "merge"
                       /\ UNCHANGED <<gret, batchFieldsList, allBatches>>
    /\ UNCHANGED <<nAssets, nDates, fieldNames, isDelay, nBatches, fieldsPerBatch, overrideDict>>
    /\ UNCHANGED <<hvars, bvars>>

\* get_historical_data raises (the session does not start or stop, a blpapi call fails)
DownloadRaises ==
    /\ gpc = "download"
    /\ \E kind \in {"ConnectionError", "Exception"} : GRaise(kind)
    /\ UNCHANGED <<nAssets, nDates, fieldNames, isDelay, nBatches, fieldsPerBatch, overrideDict>>
    /\ UNCHANGED <<hvars, bvars>>

\* batchData = read_hdf5(tempSave[b]); batchFieldsList.append(batchData['d'])
ReadBatch ==
    /\ gpc = "merge" /\ batch < nBatches
    /\ batchFieldsList' = Append(batchFieldsList, tempSave[batch + 1].d)
    /\ batch' = batch + 1
    /\ UNCHANGED <<gpc, gret, fi, tempSave, allBatches>>
    /\ UNCHANGED <<nAssets, nDates, fieldNames, isDelay, nBatches, fieldsPerBatch, overrideDict>>
    /\ UNCHANGED <<hvars, bvars>>

\* allBatches = pd.concat(batchFieldsList, ...), structured and returned
MergeBatches ==
    /\ gpc = "merge" /\ batch = nBatches
    /\ allBatches' = Concat(batchFieldsList)
    /\ gret' = "ok"
    /\ gpc' = "idle"
    /\ UNCHANGED <<batch, fi, tempSave, batchFieldsList>>
    /\ UNCHANGED <<nAssets, nDates, fieldNames, isDelay, nBatches, fieldsPerBatch, overrideDict>>
    /\ UNCHANGED <<hvars, bvars>>

InitBatch == HIdle /\ BIdle /\ GIdle

NextBatch == PlanBatches \/ DownloadField \/ DownloadRaises \/ ReadBatch \/ MergeBatches

SpecBatch == InitBatch /\ [][NextBatch]_vars

\* ------------------------------------------------------------------------
\* Whole calls as functions, and equality of Python values
\* ------------------------------------------------------------------------

\* the container save_hdf5 leaves behind for the value v
save_hdf5(v) ==
    LET r == WriteItems(EmptyFile, v.items, 1)
    IN IF r.err # "" THEN r.g ELSE _write_attrs(r.g, "_metadata", _make_metadata(v)).g

\* what read_hdf5 returns for the container f, or the exception it raises
read_hdf5(f) ==
    IF "_metadata" \notin Keys(_read_attrs(f, None).items) THEN Raise("KeyError")
    ELSE LET m == json_loads(Lookup(f.attrs, "_metadata"))
         IN IF IsRaise(m) THEN m
            ELSE IF ~IsPlainDict(m) THEN Raise("TypeError")
            ELSE ReadItems(f, m, 1, <<>>)

\* dict equality ignores insertion order; OrderedDict, list and column order count
RECURSIVE Canon(_)
Canon(v) ==
    IF v.cls = "dict" THEN PyDict(SortItems([i \in DOMAIN v.items |-> KV(v.items[i].k, Canon(v.items[i].v))]))
    ELSE IF v.cls \in {"OrderedDict", "DataFrame"}
         THEN Py(v.cls, v.txt, [i \in DOMAIN v.items |-> KV(v.items[i].k, Canon(v.items[i].v))])
    ELSE v

PyEq(a, b) == Canon(a) = Canon(b)

\* a Table somewhere in v has a missing cell
RECURSIVE HasMissing(_)
HasMissing(v) ==
    IF v.cls = "dict" THEN \E i \in DOMAIN v.items : HasMissing(v.items[i].v)
    ELSE IF v.cls = "DataFrame"
         THEN \E i \in DOMAIN v.items : \E j \in DOMAIN v.items[i].v.items : IsMissing(v.items[i].v.items[j])
    ELSE FALSE

\* a read_hdf5 call has just ended on a file that the last save_hdf5 call wrote completely
LoadedSaved == pc = "idle" /\ ret.op = "read" /\ saved # None

\* ------------------------------------------------------------------------
\* Properties
\* ------------------------------------------------------------------------

\* C1: round trip - for every root Grouping v in which no Table has a missing
\* cell, read_hdf5 of the file written by save_hdf5(v) returns a value equal
\* to v, key for key and at every nesting depth.
C1_RoundTrip ==
    (LoadedSaved /\ ~HasMissing(saved)) => (ret.status = "ok" /\ PyEq(ret.value, saved))

\* the value the scenario is said to load as
ScenarioLoaded == PyDict(<<KV("a", Scalar314), KV("b", Array2x2), KV("c", TableXY(PyStr("NaN")))>>)

\* C2: scenario - saving {a: 3.14, b: [[1,2],[3,4]], c: Table{x:[1,2], y:["foo", missing]}}
\* then loading returns a = 3.14, b = [[1,2],[3,4]], c = Table{x:[1,2], y:["foo","NaN"]}.
C2_Scenario ==
    (LoadedSaved /\ saved = Scenario) => (ret.status = "ok" /\ PyEq(ret.value, ScenarioLoaded))

\* the root of f has a '_metadata' attribute
HasMetadata(f) == "_metadata" \in Keys(f.attrs)

\* the root of f has a '_metadata' attribute that spells a JSON value
MetadataOK(f) == HasMetadata(f) /\ Lookup(f.attrs, "_metadata").txt = "json"

\* a read_hdf5 call has just ended; the file is as that call found it
Loaded == pc = "idle" /\ ret.op = "read"

UnknownTag(m) == m.cls = "str" /\ m.txt \notin Readers

\* the root entries of f whose recorded tag is unknown to the registry
UnknownEntries(f) ==
    LET m == json_loads(Lookup(f.attrs, "_metadata"))
    IN {k \in Keys(f.items) \cap Keys(m.items) : UnknownTag(Lookup(m.items, k))}

\* f without the root entries whose tag is unknown
WithoutUnknown(f) == [f EXCEPT !.items = SelectSeq(@, LAMBDA e : e.k \notin UnknownEntries(f))]

C5_SaveAtomic ==
    [][(pc = "save" /\ pc' = "idle") =>
          \/ ret'.status = "ok" /\ HasMetadata(file') /\ file' = save_hdf5(arg)
          \/ file' = before]_vars

\* a read_hdf5 call has just returned a value for a file the last save wrote completely
LoadedSavedOK == LoadedSaved /\ ret.status = "ok"

\* C6: order preservation - the OrderedMapping returned by read_hdf5 after
\* save_hdf5 has the same labels in the same insertion order, each label paired
\* with the value list it had.
C6_OrderPreserved ==
    LoadedSavedOK =>
        \A i \in DOMAIN saved.items :
            saved.items[i].v.cls = "OrderedDict" =>
                Lookup(ret.value.items, saved.items[i].k) = saved.items[i].v

\* the Table that the claim says comes back: every missing text cell is "NaN"
SentinelTable(t) ==
    DataFrame([i \in DOMAIN t.items |->
        KV(t.items[i].k,
           IF t.items[i].v.txt = "object"
           THEN Series("object", [j \in DOMAIN t.items[i].v.items |->
                    IF IsMissing(t.items[i].v.items[j]) THEN PyStr("NaN") ELSE t.items[i].v.items[j]])
           ELSE t.items[i].v)])

\* C7: Table fidelity - a loaded Table has every numeric column as saved and
\* every text column as saved except that each missing cell is the text "NaN".
C7_TableFidelity ==
    LoadedSavedOK =>
        \A i \in DOMAIN saved.items :
            saved.items[i].v.cls = "DataFrame" =>
                Lookup(ret.value.items, saved.items[i].k) = SentinelTable(saved.items[i].v)

\* v with the literal text "NaN" in place of every missing text cell of its root Tables
SentinelTwin(v) ==
    PyDict([i \in DOMAIN v.items |->
        KV(v.items[i].k, IF v.items[i].v.cls = "DataFrame" THEN SentinelTable(v.items[i].v) ELSE v.items[i].v)])

\* C8: sentinel ambiguity - a Table with a missing text cell and the Table
\* that holds the literal text "NaN" in that cell load as equal values.
C8_SentinelAmbiguity ==
    (LoadedSavedOK /\ SentinelTwin(saved) # saved) =>
        ret.value = read_hdf5(save_hdf5(SentinelTwin(saved)))

\* m is a list of (column name, tag) pairs
IsColumnList(m) ==
    /\ m.cls = "list"
    /\ \A i \in DOMAIN m.items :
          /\ m.items[i].cls \in {"tuple", "list"}
          /\ Len(m.items[i].items) = 2
          /\ m.items[i].items[1].cls = "str" /\ m.items[i].items[2].cls = "str"

\* the metadata m mirrors the Grouping d as claimed: a column list at a Table
RECURSIVE MirrorsAsClaimed(_, _)
MirrorsAsClaimed(d, m) ==
    /\ m.cls = "dict" /\ Len(m.items) = Len(d.items) /\ Keys(m.items) = Keys(d.items)
    /\ \A k \in Keys(d.items) \cap Keys(m.items) :
          LET v == Lookup(d.items, k)
              mv == Lookup(m.items, k)
          IN /\ mv.cls = "dict" <=> IsPlainDict(v)
             /\ IsPlainDict(v) => MirrorsAsClaimed(v, mv)
             /\ v.cls = "DataFrame" => IsColumnList(mv)
             /\ (~IsPlainDict(v) /\ v.cls # "DataFrame") => mv.cls = "str"

\* the metadata m mirrors the Grouping d: at a Table a mapping with the single
\* key 'DataFrame' that holds the column list, one pair per column in column order
RECURSIVE Mirrors(_, _)
Mirrors(d, m) ==
    /\ m.cls = "dict" /\ Len(m.items) = Len(d.items) /\ Keys(m.items) = Keys(d.items)
    /\ \A k \in Keys(d.items) \cap Keys(m.items) :
          LET v == Lookup(d.items, k)
              mv == Lookup(m.items, k)
          IN /\ mv.cls = "dict" <=> (IsPlainDict(v) \/ v.cls = "DataFrame")
             /\ IsPlainDict(v) => Mirrors(v, mv)
             /\ v.cls = "DataFrame" =>
                   /\ Len(mv.items) = 1 /\ mv.items[1].k = "DataFrame"
                   /\ IsColumnList(mv.items[1].v)
                   /\ Len(mv.items[1].v.items) = Len(v.items)
                   /\ \A i \in DOMAIN v.items : mv.items[1].v.items[i].items[1].txt = v.items[i].k
             /\ (~IsPlainDict(v) /\ v.cls # "DataFrame") => mv.cls = "str"

IsGroupingMeta(m) == IsPlainDict(m) /\ "DataFrame" \notin Keys(m.items)

\* the result r has, at the root and at every nested Grouping, the keys of the metadata m
RECURSIVE KeysOfMetadata(_, _)
KeysOfMetadata(r, m) ==
    /\ Keys(r.items) = Keys(m.items)
    /\ \A k \in Keys(r.items) \cap Keys(m.items) :
          IsGroupingMeta(Lookup(m.items, k)) => KeysOfMetadata(Lookup(r.items, k), Lookup(m.items, k))

\* the result r has, at the root and at every nested Grouping, the keys of the
\* container group g, all of them recorded in the metadata m
RECURSIVE KeysOfContainer(_, _, _)
KeysOfContainer(r, g, m) ==
    /\ Keys(r.items) = Keys(g.items)
    /\ Keys(g.items) \subseteq Keys(m.items)
    /\ \A k \in Keys(g.items) \cap Keys(m.items) :
          IsGroupingMeta(Lookup(m.items, k)) =>
              KeysOfContainer(Lookup(r.items, k), Lookup(g.items, k), Lookup(m.items, k))

\* the metadata tree of the file
FileMetadata == json_loads(Lookup(file.attrs, "_metadata"))

FullLog(v) ==
    [i \in 1..(Len(v.items) + 1) |->
        IF i <= Len(v.items) THEN Ev("entry", v.items[i].k) ELSE Ev("attr", "_metadata")]

\* a save_hdf5 call has just returned normally
Saved == pc = "idle" /\ ret = Ret("save", "ok", None)

\* C11: metadata is written last and always - while a save_hdf5 call runs the
\* root has no '_metadata' attribute; when the call returns normally the
\* attribute was written exactly once, after every root entry (nested entries
\* included) was written, and it holds the JSON text of the metadata tree of
\* the whole saved value.
C11_MetadataLast ==
    /\ pc = "save" => (~HasMetadata(file) /\ \A i \in DOMAIN log : log[i].kind = "entry")
    /\ Saved =>
          /\ log = FullLog(arg)
          /\ file.items = WriteItems(EmptyFile, arg.items, 1).g.items
          /\ file.attrs = <<KV("_metadata", json_dumps(_make_metadata(arg)))>>

\* a save of two root entries, one a nested Grouping that is not empty, returned normally
C11_Witness ==
    /\ Saved /\ Len(arg.items) = 2 /\ Len(log) = 3
    /\ \E i \in DOMAIN arg.items : IsPlainDict(arg.items[i].v) /\ arg.items[i].v.items # <<>>

\* the root Grouping v with its data key '_metadata' spelled k
Renamed(v, k) ==
    PyDict([i \in DOMAIN v.items |->
        IF v.items[i].k = "_metadata" THEN KV(k, v.items[i].v) ELSE v.items[i]])

\* C12: the reserved key never collides - after save_hdf5 of a root Grouping
\* that has a data key spelled '_metadata', the root attribute '_metadata' holds
\* the metadata tree of the whole value, the data entry '_metadata' is the entry
\* that the same value gets under an ordinary key, and read_hdf5 returns, under
\* '_metadata', what it returns for that value under an ordinary key.
C12_ReservedKey ==
    (saved # None /\ "_metadata" \in Keys(saved.items)) =>
        /\ file.attrs = <<KV("_metadata", json_dumps(_make_metadata(saved)))>>
        /\ "_metadata" \in Keys(file.items)
        /\ Lookup(file.items, "_metadata") = Lookup(save_hdf5(Renamed(saved, "c")).items, "c")
        /\ Loaded =>
              /\ ret.status = "ok"
              /\ "_metadata" \in Keys(ret.value.items)
              /\ Lookup(ret.value.items, "_metadata")
                    = Lookup(read_hdf5(save_hdf5(Renamed(saved, "c"))).items, "c")

\* a Table saved under the data key '_metadata', next to another entry, was loaded as a Table
C12_Witness ==
    /\ Loaded /\ saved # None /\ ret.status = "ok"
    /\ Keys(saved.items) = {"a", "_metadata"}
    /\ Lookup(saved.items, "_metadata").cls = "DataFrame"
    /\ Lookup(ret.value.items, "_metadata").cls = "DataFrame"

\* C13: handle scope - between calls no container handle is open: whenever
\* save_hdf5 or read_hdf5 has ended, by a normal return or by an exception of a
\* writer, a reader or the metadata parse, the handle the call opened is
\* closed; a handle is open only while its call runs, in the mode of that call.
C13_HandleScope ==
    /\ pc = "idle" => handle = "closed"
    /\ pc = "save" => handle = "w"
    /\ pc = "read" => handle = "r"

\* a save_hdf5 call ended by a writer's exception after an entry was written, handle closed
C13_Witness ==
    /\ pc = "idle" /\ ret.op = "save" /\ ret.status = "raise"
    /\ file.items # <<>>
    /\ handle = "closed"

\* the pair of a column list names a column of the Table group g that cannot be
\* reconstructed: it is absent, or its reader raises, or returns no array
ColumnRaises(g, pair) ==
    \/ pair.items[1].txt \notin Keys(g.items)
    \/ LET col_data == Apply(_get_reader(pair.items[2]), Lookup(g.items, pair.items[1].txt), pair.items[2])
       IN IsRaise(col_data) \/ col_data.cls # "ndarray"

\* some Table of the group g, at any depth of the Groupings that the metadata m
\* records, has a column that cannot be reconstructed
RECURSIVE ColumnFails(_, _)
ColumnFails(g, m) ==
    \E i \in DOMAIN g.items :
        /\ g.items[i].k \in Keys(m.items)
        /\ g.items[i].v.cls = "Group"
        /\ LET mv == Lookup(m.items, g.items[i].k)
           IN \/ _get_reader(mv) = "dict" /\ ColumnFails(g.items[i].v, mv)
              \/ /\ _get_reader(mv) = "DataFrame"
                 /\ IsColumnList(Lookup(mv.items, "DataFrame"))
                 /\ \E j \in DOMAIN Lookup(mv.items, "DataFrame").items :
                       ColumnRaises(g.items[i].v, Lookup(mv.items, "DataFrame").items[j])

\* C14: a column failure is fatal to the whole load - when some column of some
\* Table of the container, at any nesting depth, cannot be reconstructed,
\* read_hdf5 raises and returns no value: no Grouping with the other keys or
\* the other columns comes back.
C14_ColumnFatal ==
    (Loaded /\ MetadataOK(file) /\ IsPlainDict(FileMetadata) /\ ColumnFails(file, FileMetadata)) =>
        /\ ret.status = "raise"
        /\ IsRaise(ret.value)
        /\ data = <<>>

\* a load raised on the column of a Table inside a nested Grouping, behind readable entries
C14_Witness ==
    /\ Loaded /\ MetadataOK(file) /\ IsPlainDict(FileMetadata)
    /\ ColumnFails(file, FileMetadata)
    /\ ~(\E i \in DOMAIN file.items : _get_reader(Lookup(FileMetadata.items, file.items[i].k)) = "DataFrame")
    /\ ret = Ret("read", "raise", Raise("NameError"))

\* C15: Sequence round trip - for every Sequence saved under a root key,
\* read_hdf5 returns under that key a list of the same length whose i-th
\* element equals the i-th element that was saved.
C15_SequenceRoundTrip ==
    LoadedSavedOK =>
        \A i \in DOMAIN saved.items :
            saved.items[i].v.cls = "list" =>
                LET got == Lookup(ret.value.items, saved.items[i].k)
                    was == saved.items[i].v
                IN /\ got.cls = "list"
                   /\ Len(got.items) = Len(was.items)
                   /\ \A n \in DOMAIN was.items : got.items[n] = was.items[n]

\* C16: Array round trip - for every numeric Array saved under a root key,
\* of one dimension or of two, read_hdf5 returns an Array of the same dtype
\* and shape with the same numeric element at every index, not text.
C16_ArrayRoundTrip ==
    LoadedSaved =>
        /\ (\A i \in DOMAIN saved.items : saved.items[i].v.cls \in {"ndarray", "float", "list", "DataFrame"})
              => ret.status = "ok"
        /\ ret.status = "ok" =>
              \A i \in DOMAIN saved.items :
                  saved.items[i].v.cls = "ndarray" =>
                      Lookup(ret.value.items, saved.items[i].k) = saved.items[i].v

\* the one-dimensional and the two-dimensional Array were saved together and loaded
C16_Witness ==
    /\ LoadedSavedOK
    /\ \E i, j \in DOMAIN saved.items : saved.items[i].v = Array1 /\ saved.items[j].v = Array2x2
    /\ \E i \in DOMAIN ret.value.items : ret.value.items[i].v = Array1

\* the tag that _make_metadata records for column i of the Table t
ColumnTag(t, i) == ColumnMetadata(t)[i].items[2].txt

\* the root entries of v that are Tables
RootTables(v) == {i \in DOMAIN v.items : v.items[i].v.cls = "DataFrame"}

ColumnNames(t) == [i \in DOMAIN t.items |-> t.items[i].k]

\* C18: Table columns keep names and order - for every saved root Table the
\* metadata records one (name, tag) pair per column in column order, the
\* Table's group holds one dataset per column under the column's name, and the
\* Table returned by read_hdf5 has those column names in that order, all
\* columns of the length they were saved with.
C18_ColumnOrder ==
    /\ saved # None =>
          \A r \in RootTables(saved) :
              LET t == saved.items[r].v
                  cm == ColumnMetadata(t)
                  g == Lookup(file.items, saved.items[r].k)
              IN /\ Len(cm) = Len(t.items)
                 /\ \A i \in DOMAIN t.items : cm[i].items[1] = PyStr(t.items[i].k)
                 /\ g.cls = "Group" /\ Len(g.items) = Len(t.items)
                 /\ Keys(g.items) = Keys(t.items)
                 /\ \A i \in DOMAIN g.items : g.items[i].v.cls = "Dataset"
    /\ LoadedSavedOK =>
          \A r \in RootTables(saved) :
              LET t == saved.items[r].v
                  got == Lookup(ret.value.items, saved.items[r].k)
              IN /\ got.cls = "DataFrame"
                 /\ ColumnNames(got) = ColumnNames(t)
                 /\ \A i \in DOMAIN got.items : Len(got.items[i].v.items) = Len(t.items[i].v.items)

\* a Table whose columns are not in name order was saved and loaded
C18_Witness ==
    /\ LoadedSavedOK
    /\ \E r \in RootTables(saved) :
          /\ ColumnNames(saved.items[r].v) = <<"y", "x">>
          /\ ColumnNames(Lookup(ret.value.items, saved.items[r].k)) = <<"y", "x">>

\* the reader that _get_reader returns for what _make_metadata records at root entry i of v
RecordedReader(v, i) == _get_reader(_make_metadata(v).items[i].v)

\* C19: recorded tags are registered - for every root entry of a saved value,
\* of whichever core shape, the tag that _make_metadata records selects the
\* shape's own reader in _get_reader and never the opaque fallback _read_attrs.
C19_TagsRegistered ==
    saved # None =>
        \A i \in DOMAIN saved.items :
            /\ RecordedReader(saved, i) # "attrs"
            /\ saved.items[i].v.cls \in {"ndarray", "list", "OrderedDict", "DataFrame"} =>
                  RecordedReader(saved, i) = saved.items[i].v.cls

\* C20: Grouping and Table are never confused on load - for every nested
\* Grouping of a saved value, whatever its key names, _get_reader selects the
\* Grouping reader for its metadata sub-tree, and it selects the Table reader
\* only for metadata that was produced from a Table.
C20_GroupingNotTable ==
    saved # None =>
        \A i \in DOMAIN saved.items :
            /\ IsPlainDict(saved.items[i].v) => RecordedReader(saved, i) = "dict"
            /\ RecordedReader(saved, i) = "DataFrame" => saved.items[i].v.cls = "DataFrame"

\* the metadata m is what the builder records for a Table: {'DataFrame': column list}
RecordsTable(m) ==
    /\ m.cls = "dict" /\ "DataFrame" \in Keys(m.items)
    /\ IsColumnList(Lookup(m.items, "DataFrame"))

\* C21: the metadata builder and the writer classify alike - for every root
\* entry of a saved value, of a class derived from the mapping type included,
\* _make_metadata records a nested mapping exactly when _write_to_hdf5 wrote
\* the entry as a Grouping group, and a Table's column list exactly when the
\* writer wrote a Table group.
C21_ClassifyAlike ==
    saved # None =>
        \A i \in DOMAIN saved.items :
            LET m == _make_metadata(saved).items[i].v
                node == Lookup(file.items, saved.items[i].k)
                writer == WriterOf(saved.items[i].v.cls)
            IN /\ (m.cls = "dict" /\ ~RecordsTable(m)) <=> (writer \in {"dict", "InputParameters"} /\ node.cls = "Group")
               /\ RecordsTable(m) <=> (writer = "DataFrame" /\ node.cls = "Group")

\* the entries of the root Grouping v up to entry n, written into an empty file
WrittenSoFar(v, n) == WriteItems(EmptyFile, SubSeq(v.items, 1, n), 1).g

\* C22: save replaces, never merges - whatever the file held before the call,
\* while save_hdf5 runs the file holds only the entries of the new value written
\* so far, after it returns the file is the one that save_hdf5 of the new
\* value alone writes, and read_hdf5 returns what it returns for that file.
C22_SaveReplaces ==
    /\ pc = "save" => file = WrittenSoFar(arg, idx)
    /\ saved # None => file = save_hdf5(saved)
    /\ LoadedSaved => ret.value = read_hdf5(save_hdf5(saved))

\* a second save is about to return: the file held a saved value with an Array
\* under a key that the new value lacks, and holds nothing of it
C22_Witness ==
    /\ pc = "save" /\ idx = Len(arg.items) /\ idx > 0
    /\ HasMetadata(before)
    /\ \E i \in DOMAIN before.items :
          before.items[i].v.txt = "int64" /\ before.items[i].k \notin Keys(arg.items)
    /\ Keys(file.items) = Keys(arg.items)

\* C23: load is read-only and repeatable - while read_hdf5 runs and when it has
\* ended the container is what it was when the call began, and what the call
\* returns or raises is a function of the container alone, so every load of the
\* same file with no save in between gives the same value.
C23_LoadReadOnly ==
    /\ (pc = "read" \/ Loaded) => file = before
    /\ pc = "read" => (handle = "r" /\ meta = FileMetadata)
    /\ Loaded => ret.value = read_hdf5(file)
    /\ pc = "idle" => (data = <<>> /\ meta = None /\ idx = 0)

\* a load returned a Grouping of two entries and left the file with its entries and metadata
C23_Witness ==
    /\ Loaded /\ ret.status = "ok"
    /\ Len(ret.value.items) = 2
    /\ Len(file.items) = 2 /\ HasMetadata(file)
    /\ file = before

\* C24: save leaves its input unchanged - while save_hdf5 runs and after it
\* has returned or raised, the caller's value equals the value that was passed
\* at every node; the missing cells of a Table's text columns are still missing.
C24_InputUnchanged ==
    (pc = "save" \/ (pc = "idle" /\ ret.op = "save")) => arg = given

\* a save of a Table with a missing text cell returned, the cell is still missing
C24_Witness ==
    /\ Saved
    /\ \E i \in DOMAIN given.items : given.items[i].v = TableXY(NaN)
    /\ HasMissing(arg)

\* a call of a market-data function has ended, by a return or by an exception
Ended == bpc = "idle" /\ fn # "none"

\* C25: every started market-data session is stopped - when a call has ended
\* after start_bloomberg_session succeeded, whether by a normal return or by an
\* exception, stop_bloomberg_session was called on the session exactly once;
\* when the start failed, ConnectionError was raised and no request was sent.
C25_SessionStopped ==
    /\ stops <= 1
    /\ (Ended /\ session # "none") => (stops = 1 /\ session = "stopped")
    /\ (Ended /\ session = "none") => (bret = "ConnectionError" /\ sent = <<>> /\ stops = 0)

\* the records of the events evs, in delivery order
RECURSIVE AllRecords(_, _, _)
AllRecords(f, evs, d) ==
    IF evs = <<>> THEN <<>>
    ELSE EventRecords(f, Head(evs), d) \o AllRecords(f, Tail(evs), d)

\* none of the first n events is a final RESPONSE
NoResponse(evs, n) == \A i \in 1..n : evs[i].type # "RESPONSE"

\* C26: the event loop collects until the final response - in
\* get_reference_data and get_historical_data data_records holds the records of
\* every event consumed, in delivery order; while the loop runs no RESPONSE has
\* been consumed and the session is not stopped; once the loop has ended the
\* last event consumed is the first RESPONSE, so no later event was consumed,
\* and only then is the session stopped.
C26_EventLoop ==
    fn \in {"get_reference_data", "get_historical_data"} =>
        /\ data_records = AllRecords(fn, events, date)
        /\ Len(sent) <= 1
        /\ bpc = "events" => (NoResponse(events, Len(events)) /\ stops = 0 /\ session = "started")
        /\ (bpc = "stop" \/ stops > 0) =>
              /\ events # <<>>
              /\ events[Len(events)].type = "RESPONSE"
              /\ NoResponse(events, Len(events) - 1)

\* get_reference_data returned after a partial response, a timeout and the final response
C26_Witness ==
    /\ Ended /\ bret = "ok" /\ fn = "get_reference_data"
    /\ events = <<Event("PARTIAL_RESPONSE", <<"r1">>), Event("TIMEOUT", <<>>), Event("RESPONSE", <<"r2", "r3">>)>>
    /\ data_records = <<<<"r1">>, <<"r2">>, <<"r3">>>>

\* the calendar days from the day of datetime s to the day of datetime e, ascending
DaysBetween(s, e) == IF s > e THEN <<>> ELSE [i \in 1..(Day(e) - Day(s) + 1) |-> Day(s) + i - 1]

\* C27: get_index_data issues one request per calendar day - for
\* start_date <= end_date one request for each date from start_date to
\* end_date inclusive, ascending, each sent after the RESPONSE of the request
\* before it, every record tagged with the date of the running request; for
\* start_date > end_date no request and an empty result.
C27_RequestPerDay ==
    fn = "get_index_data" =>
        /\ bpc = "request" => (sent # <<>> => (events # <<>> /\ events[Len(events)].type = "RESPONSE"))
        /\ bpc = "events" => (sent # <<>> /\ sent[Len(sent)] = Day(date) /\ NoResponse(events, Len(events)))
        /\ \A i \in DOMAIN data_records : \E j \in DOMAIN sent : data_records[i][2] = sent[j]
        /\ (bpc = "stop" \/ stops > 0) => sent = DaysBetween(period[1], period[2])
        /\ period[1] > period[2] => (sent = <<>> /\ data_records = <<>>)

\* the batches of the plan, in order
Batches == [b \in 1..nBatches |-> BatchFields(fieldNames, fieldsPerBatch, b - 1)]

\* the sequences seqs joined in order
RECURSIVE Join(_)
Join(seqs) == IF seqs = <<>> THEN <<>> ELSE Head(seqs) \o Join(Tail(seqs))

\* the batch plan of a call with at least one field has been made
Planned == gret \in {"running", "ok"} \/ (gpc = "idle" /\ gret \in {"TypeError", "ConnectionError", "Exception"})

\* C28: the batches cover every field and the merge has every field's data -
\* the batches of getBbgFieldData hold every requested field exactly once, at
\* most 8 fields each, and when the call returns the merged data holds the
\* data of every requested field, every field of a batch of several included.
C28_EveryFieldMerged ==
    /\ Planned =>
          /\ Join(Batches) = fieldNames
          /\ \A b \in 1..nBatches : Len(Batches[b]) \in 1..MaxFieldsPerBatch
    /\ (gpc = "idle" /\ gret = "ok") => allBatches = {fieldNames[i] : i \in DOMAIN fieldNames}

\* C29: the delay is set when the daily-hit term decides the plan - for a
\* call with at least one field isDelay is set when
\* ceil(nAssets * nFields / maxHits) is the largest of the three terms of the
\* batch count, and it is not set when another term is larger.
C29_DelayWhenHitsLargest ==
    Planned =>
        LET nFields == Len(fieldNames)
            hits == HitsTerm(nAssets, nFields)
            byFields == FieldsTerm(nFields)
            bySize == SizeTerm(nAssets, nDates, nFields)
        IN /\ (hits > byFields /\ hits > bySize) => isDelay
           /\ (hits < byFields \/ hits < bySize) => ~isDelay

====
